---- MODULE Spec2Model ----
(***************************************************************************)
(* A model of the Ladbrokes racing scraper (ladbrokes_racing_scraper.py    *)
(* and its environment-driven entry point run_scraper.py).                 *)
(*                                                                         *)
(* Python values are modelled as follows.                                  *)
(*   str    a sequence of one-character strings, <<"A","U","S">>           *)
(*   dict   a function whose DOMAIN is the set of keys that are present    *)
(*   list   a sequence                                                     *)
(* The JSON values held by runner fields and identifiers are TLA+ strings: *)
(* "null" is None, "" is the empty string/list/dict, "0" is the number 0,  *)
(* and any other string is a populated value.                              *)
(***************************************************************************)
EXTENDS Integers, Sequences, FiniteSets, TLC

(***************************************************************************)
(* Python string methods                                                   *)
(***************************************************************************)
Whitespace == {" ", "\t", "\n", "\r"}

LowerCase == <<"a","b","c","d","e","f","g","h","i","j","k","l","m",
               "n","o","p","q","r","s","t","u","v","w","x","y","z">>

UpperCase == <<"A","B","C","D","E","F","G","H","I","J","K","L","M",
               "N","O","P","Q","R","S","T","U","V","W","X","Y","Z">>

Digits == <<"0","1","2","3","4","5","6","7","8","9">>

\* str.upper()
Upper(s) ==
    [i \in 1..Len(s) |->
        IF \E j \in 1..Len(LowerCase) : LowerCase[j] = s[i]
        THEN UpperCase[CHOOSE j \in 1..Len(LowerCase) : LowerCase[j] = s[i]]
        ELSE s[i]]

RECURSIVE LStrip(_)
LStrip(s) ==
    IF s # <<>> /\ Head(s) \in Whitespace THEN LStrip(Tail(s)) ELSE s

RECURSIVE RStrip(_)
RStrip(s) ==
    IF s # <<>> /\ s[Len(s)] \in Whitespace
    THEN RStrip(SubSeq(s, 1, Len(s) - 1))
    ELSE s

\* str.strip()
Strip(s) == RStrip(LStrip(s))

\* str.rstrip("_")
RECURSIVE RStripUnderscore(_)
RStripUnderscore(s) ==
    IF s # <<>> /\ s[Len(s)] = "_"
    THEN RStripUnderscore(SubSeq(s, 1, Len(s) - 1))
    ELSE s

\* str.replace(c, r) for a one-character c
ReplaceChar(s, c, r) == [i \in 1..Len(s) |-> IF s[i] = c THEN r ELSE s[i]]

\* str.replace("__", "_"): one left-to-right pass over non-overlapping matches
RECURSIVE ReplaceDoubleUnderscore(_)
ReplaceDoubleUnderscore(s) ==
    IF Len(s) >= 2 /\ s[1] = "_" /\ s[2] = "_"
    THEN <<"_">> \o ReplaceDoubleUnderscore(SubSeq(s, 3, Len(s)))
    ELSE IF s = <<>> THEN <<>>
    ELSE <<Head(s)>> \o ReplaceDoubleUnderscore(Tail(s))

\* str.split(c) for a one-character separator: empty pieces are kept
RECURSIVE Split(_, _)
Split(s, c) ==
    IF \E i \in 1..Len(s) : s[i] = c
    THEN LET i == CHOOSE k \in 1..Len(s) :
                      s[k] = c /\ \A j \in 1..(k - 1) : s[j] # c
         IN <<SubSeq(s, 1, i - 1)>> \o Split(SubSeq(s, i + 1, Len(s)), c)
    ELSE <<s>>

\* str.split(): the whitespace-separated words, empty pieces dropped
RECURSIVE Words(_)
Words(s) ==
    LET t == LStrip(s) IN
    IF t = <<>> THEN <<>>
    ELSE IF \E i \in 1..Len(t) : t[i] \in Whitespace
    THEN LET i == CHOOSE k \in 1..Len(t) :
                      t[k] \in Whitespace /\ \A j \in 1..(k - 1) : t[j] \notin Whitespace
         IN <<SubSeq(t, 1, i - 1)>> \o Words(SubSeq(t, i + 1, Len(t)))
    ELSE <<t>>

\* str.isdigit()
IsDigit(s) == s # <<>> /\ \A i \in 1..Len(s) : \E d \in 1..10 : Digits[d] = s[i]

\* int(s) for a string of digits
RECURSIVE ToInt(_)
ToInt(s) ==
    IF s = <<>> THEN 0
    ELSE 10 * ToInt(SubSeq(s, 1, Len(s) - 1))
         + (CHOOSE d \in 0..9 : Digits[d + 1] = s[Len(s)])

\* f"{n:02d}" for 0 <= n
RECURSIVE Decimal(_)
Decimal(n) ==
    IF n < 10 THEN <<Digits[n + 1]>>
    ELSE Decimal(n \div 10) \o <<Digits[(n % 10) + 1]>>

Format02d(n) == IF n < 10 THEN <<"0">> \o Decimal(n) ELSE Decimal(n)

StartsWith(s, p) == Len(s) >= Len(p) /\ SubSeq(s, 1, Len(p)) = p

EndsWith(s, p) == Len(s) >= Len(p) /\ SubSeq(s, Len(s) - Len(p) + 1, Len(s)) = p

\* iterating a str yields its characters as one-character strs
IterStr(s) == [i \in 1..Len(s) |-> <<s[i]>>]

(***************************************************************************)
(* Python dicts and truthiness                                             *)
(***************************************************************************)
EmptyDict == <<>>

\* d.get(k, default)
Get(d, k, default) == IF k \in DOMAIN d THEN d[k] ELSE default

\* d[k] = v
Put(d, k, v) == [x \in (DOMAIN d) \cup {k} |-> IF x = k THEN v ELSE d[x]]

JNull == "null"

Falsy == {"null", "", "0"}

\* bool(v) for a field or identifier value
Truthy(v) == v \notin Falsy

\* a or b
Or(a, b) == IF Truthy(a) THEN a ELSE b

(***************************************************************************)
(* Static configuration of the scraper                                     *)
(***************************************************************************)
AUS == <<"A","U","S">>
NZL == <<"N","Z","L">>
HKG == <<"H","K","G">>

\* list(self.country_codes.keys()): the codes in insertion order
country_codes ==
    << AUS, NZL, HKG, <<"S","G","P">>, <<"J","P","N">>, <<"K","O","R">>,
       <<"G","B","R">>, <<"I","R","L">>, <<"U","S","A">>, <<"C","A","N">>,
       <<"F","R","A">>, <<"G","E","R">>, <<"I","T","A">>, <<"E","S","P">>,
       <<"A","R","G">>, <<"Z","A","F">>, <<"U","A","E">>, <<"S","A","U">>,
       <<"C","H","I">>, <<"B","R","A">>, <<"P","E","R">>, <<"M","E","X">>,
       <<"M","A","C">>, <<"M","A","L">>, <<"I","N","D">> >>

\* sorted(self.country_codes.items(), key=lambda x: x[1]): the codes by country name
sorted_countries ==
    << <<"A","R","G">>, AUS, <<"B","R","A">>, <<"C","A","N">>, <<"C","H","I">>,
       <<"F","R","A">>, <<"G","E","R">>, <<"G","B","R">>, HKG, <<"I","N","D">>,
       <<"I","R","L">>, <<"I","T","A">>, <<"J","P","N">>, <<"M","A","C">>,
       <<"M","A","L">>, <<"M","E","X">>, NZL, <<"P","E","R">>, <<"S","A","U">>,
       <<"S","G","P">>, <<"Z","A","F">>, <<"K","O","R">>, <<"E","S","P">>,
       <<"U","A","E">>, <<"U","S","A">> >>

international_countries ==
    { NZL, HKG, <<"J","P","N">>, <<"K","O","R">>, <<"G","B","R">>, <<"I","R","L">>,
      <<"F","R","A">>, <<"G","E","R">>, <<"I","T","A">>, <<"E","S","P">>,
      <<"S","G","P">>, <<"M","A","C">>, <<"C","H","I">>, <<"A","R","G">> }

merge_fields ==
    << "form_comment", "last_twenty_starts", "past_performances",
       "form_indicators", "best_time", "speedmap", "jockey_past_performances",
       "trainer_statistics", "gear", "flucs_with_timestamp", "class_level",
       "recent_form", "track_stats", "distance_stats" >>

invalid_chars == << "<", ">", ":", "\"", "/", "\\", "|", "?", "*" >>

(***************************************************************************)
(* sanitize_filename                                                       *)
(***************************************************************************)
RECURSIVE ReplaceInvalid(_, _)
ReplaceInvalid(name, i) ==
    IF i > Len(invalid_chars) THEN name
    ELSE ReplaceInvalid(ReplaceChar(name, invalid_chars[i], "_"), i + 1)

\* a sanitizer that strips and replaces nothing
SanitizeStrippingOnly(name) == Strip(name)

sanitize_filename(name) == Strip(ReplaceInvalid(name, 1))

(***************************************************************************)
(* JSON bodies.  A response body is a record [shape, data]:                *)
(*   "falsy"    a body Python treats as false ({} , [], null)              *)
(*   "nodata"   a non-empty object without the key "data"                  *)
(*   "baddata"  an object whose "data" is null                             *)
(*   "record"   an object whose "data" is the dict held in the field data  *)
(***************************************************************************)
Body(shape, data) == [shape |-> shape, data |-> data]

\* bool(body)
BodyTruthy(body) == body.shape # "falsy"

\* "data" in body
HasData(body) == body.shape \in {"baddata", "record"}

(***************************************************************************)
(* _is_form_data_incomplete                                                *)
(***************************************************************************)
SampleSize == 3

form_sample_fields ==
    <<"form_comment", "last_twenty_starts", "past_performances", "form_indicators">>

\* not (has_form_comment or has_last_starts or has_past_performances or has_form_indicators)
LacksFormFields(runner) ==
    \A i \in 1..Len(form_sample_fields) :
        ~Truthy(Get(runner, form_sample_fields[i], JNull))

\* FirstRunners without the slice: every runner is sampled
EveryRunner(runners) == runners

\* runners[:3]
FirstRunners(runners) ==
    SubSeq(runners, 1, IF Len(runners) < SampleSize THEN Len(runners) ELSE SampleSize)

\* data.get on a "data" that is null raises AttributeError
HeuristicRaises(race_data) == BodyTruthy(race_data) /\ race_data.shape = "baddata"

\* the heuristic without the country test: every race is taken as international
IncompleteWhateverCountry(race_data, country) ==
    /\ BodyTruthy(race_data) /\ HasData(race_data)
    /\ \E i \in 1..Len(FirstRunners(Get(race_data.data, "runners", <<>>))) :
           LacksFormFields(Get(race_data.data, "runners", <<>>)[i])

_is_form_data_incomplete(race_data, country) ==
    IF ~BodyTruthy(race_data) \/ ~HasData(race_data) THEN FALSE
    ELSE LET data    == race_data.data
             runners == Get(data, "runners", <<>>)
         IN  IF Len(runners) = 0 THEN FALSE
             ELSE LET race_country == Get(Get(data, "race", EmptyDict), "country", <<>>)
                      is_international ==
                          \/ race_country \in international_countries
                          \/ country \in international_countries
                      sample == FirstRunners(runners)
                  IN  \E i \in 1..Len(sample) :
                          is_international /\ LacksFormFields(sample[i])

(***************************************************************************)
(* _merge_runner_data and _merge_form_data                                 *)
(***************************************************************************)
\* MergeFieldsFrom without the presence check: every offered field is copied
MergeFieldsOverwriting(base_runner, detail_runner, i) ==
    LET offered == {merge_fields[j] : j \in i..Len(merge_fields)} \cap DOMAIN detail_runner
    IN  [f \in (DOMAIN base_runner) \cup offered |->
            IF f \in offered THEN detail_runner[f] ELSE base_runner[f]]

\* the loop over merge_fields, from the i-th field on
RECURSIVE MergeFieldsFrom(_, _, _)
MergeFieldsFrom(base_runner, detail_runner, i) ==
    IF i > Len(merge_fields) THEN base_runner
    ELSE LET field == merge_fields[i]
             next  == IF /\ field \in DOMAIN detail_runner
                         /\ (field \notin DOMAIN base_runner \/ ~Truthy(base_runner[field]))
                      THEN Put(base_runner, field, detail_runner[field])
                      ELSE base_runner
         IN  MergeFieldsFrom(next, detail_runner, i + 1)

\* "field in detail_runner" on a "data" that is null raises TypeError
MergeRunnerRaises(detail_data) == detail_data.shape = "baddata"

_merge_runner_data(base_runner, detail_data) ==
    IF ~BodyTruthy(detail_data) \/ ~HasData(detail_data) THEN base_runner
    ELSE MergeFieldsFrom(base_runner, detail_data.data, 1)

\* r.get("entrant_id") or r.get("runner_number")
RunnerKey(r) == Or(Get(r, "entrant_id", JNull), Get(r, "runner_number", JNull))

\* form_runners[runner_id] of the dict comprehension: the last runner with that key
FormRunner(form_list, runner_id) ==
    form_list[CHOOSE j \in 1..Len(form_list) :
                  /\ RunnerKey(form_list[j]) = runner_id
                  /\ \A k \in (j + 1)..Len(form_list) : RunnerKey(form_list[k]) # runner_id]

\* runner_id in form_runners
InFormRunners(form_list, runner_id) ==
    \E j \in 1..Len(form_list) : RunnerKey(form_list[j]) = runner_id

\* '"runners" in form_data["data"]' on a "data" that is null raises TypeError
MergeFormRaises(form_data) == BodyTruthy(form_data) /\ form_data.shape = "baddata"

_merge_form_data(base_data, form_data) ==
    IF ~BodyTruthy(form_data) \/ ~HasData(form_data) THEN base_data
    ELSE LET base == IF HasData(base_data) THEN base_data ELSE Body("record", EmptyDict)
         IN  IF "runners" \in DOMAIN form_data.data /\ "runners" \in DOMAIN base.data
             THEN LET form_list == form_data.data["runners"]
                      runners   == base.data["runners"]
                      merged    ==
                          [idx \in 1..Len(runners) |->
                              IF InFormRunners(form_list, RunnerKey(runners[idx]))
                              THEN _merge_runner_data(
                                       runners[idx],
                                       Body("record",
                                            FormRunner(form_list, RunnerKey(runners[idx]))))
                              ELSE runners[idx]]
                  IN  Body("record", Put(base.data, "runners", merged))
             ELSE base

(***************************************************************************)
(* Selection: the prompts of the scraper and the parsing of run_scraper.py *)
(***************************************************************************)
ALL == <<"A","L","L">>

InSeq(x, seq) == \E i \in 1..Len(seq) : seq[i] = x

\* [x.strip() for x in s.split(',')]
SplitStrip(s) == LET parts == Split(s, ",") IN [i \in 1..Len(parts) |-> Strip(parts[i])]

\* the loop over the typed tokens of prompt_for_countries, from the i-th on
RECURSIVE SelectCountries(_, _)
SelectCountries(inputs, i) ==
    IF i > Len(inputs) THEN <<>>
    ELSE LET inp == inputs[i]
             idx == ToInt(inp) - 1
             sel == IF IsDigit(inp)
                    THEN IF 0 <= idx /\ idx < Len(sorted_countries)
                         THEN <<sorted_countries[idx + 1]>> ELSE <<>>
                    ELSE IF InSeq(inp, country_codes) THEN <<inp>> ELSE <<>>
         IN  sel \o SelectCountries(inputs, i + 1)

prompt_for_countries(line) ==
    LET user_input == Upper(Strip(line)) IN
    IF user_input = <<>> THEN <<AUS>>
    ELSE IF user_input = ALL THEN country_codes
    ELSE LET selected == SelectCountries(SplitStrip(user_input), 1)
         IN  IF selected = <<>> THEN <<AUS>> ELSE selected

\* category_map of prompt_for_categories
category_map(inp) ==
    CASE inp \in {<<"1">>, <<"T">>} -> <<"T">>
      [] inp \in {<<"2">>, <<"G">>} -> <<"G">>
      [] inp \in {<<"3">>, <<"H">>} -> <<"H">>
      [] OTHER -> <<>>

\* the loop over the typed tokens of prompt_for_categories, with acc selected so far
RECURSIVE SelectCategories(_, _, _)
SelectCategories(inputs, i, acc) ==
    IF i > Len(inputs) THEN acc
    ELSE LET cat == category_map(inputs[i])
         IN  SelectCategories(inputs, i + 1,
                 IF cat # <<>> /\ ~InSeq(cat, acc) THEN Append(acc, cat) ELSE acc)

prompt_for_categories(line) ==
    LET user_input == Upper(Strip(line)) IN
    IF user_input = <<>> THEN << <<"T">>, <<"G">> >>
    ELSE IF user_input = ALL THEN << <<"T">>, <<"G">>, <<"H">> >>
    ELSE LET selected == SelectCategories(SplitStrip(user_input), 1, <<>>)
         IN  IF selected = <<>> THEN << <<"T">>, <<"G">> >> ELSE selected

\* run_scraper.py: the items scrape_and_save iterates for SCRAPE_COUNTRIES.  The
\* value 'ALL' is passed on as a str, whose iteration yields its characters.
run_scraper_countries(env) ==
    LET countries_str == Get(env, "SCRAPE_COUNTRIES", AUS) IN
    IF countries_str = ALL THEN IterStr(ALL) ELSE SplitStrip(countries_str)

\* run_scraper.py: the categories list for SCRAPE_CATEGORIES
run_scraper_categories(env) ==
    SplitStrip(Get(env, "SCRAPE_CATEGORIES", <<"T", ",", "G">>))

(***************************************************************************)
(* Folder and file names, and the summary derived from the directory tree  *)
(***************************************************************************)
Unknown == <<"U","n","k","n","o","w","n">>

UnknownRace == <<"U","n","k","n","o","w","n"," ","R","a","c","e">>

RacePrefix == <<"R","a","c","e","_">>

JsonSuffix == <<".","j","s","o","n">>

MeetingInfo == <<"m","e","e","t","i","n","g","_","i","n","f","o",".","j","s","o","n">>

\* category_name.split()[0] raises IndexError when the name holds no word
FolderRaises(meeting) == Words(Get(meeting, "category_name", Unknown)) = <<>>

\* the folder of a meeting under the date directory
folder_name(meeting) ==
    LET meeting_name  == Get(meeting, "name", Unknown)
        category_name == Get(meeting, "category_name", Unknown)
        country       == Get(meeting, "country", <<>>)
        state         == Get(meeting, "state", <<>>)
        raw == meeting_name \o <<"_">> \o Words(category_name)[1] \o <<"_">>
                   \o country \o <<"_">> \o state
    IN  sanitize_filename(RStripUnderscore(ReplaceDoubleUnderscore(raw)))

\* the file of a race in its meeting's folder
race_filename(race) ==
    sanitize_filename(RacePrefix \o Format02d(Get(race, "race_number", 0)) \o <<"_">>
                          \o Get(race, "name", UnknownRace) \o JsonSuffix)

\* IsRaceFile with the pattern "*.json"
IsJsonFile(name) == EndsWith(name, JsonSuffix)

\* meeting_dir.glob("Race_*.json")
IsRaceFile(name) ==
    /\ Len(name) >= Len(RacePrefix) + Len(JsonSuffix)
    /\ StartsWith(name, RacePrefix)
    /\ EndsWith(name, JsonSuffix)

\* list(meeting_dir.glob("Race_*.json")) in a tree whose files are <<folder, name>>
race_files(tree_files, folder) == {f \in tree_files : f[1] = folder /\ IsRaceFile(f[2])}

\* parts[-2] if len(parts) >= 2 else "Unknown"
folder_country(folder) ==
    LET parts == Split(folder, "_")
    IN  IF Len(parts) >= 2 THEN parts[Len(parts) - 1] ELSE Unknown

\* summary["total_races"] accumulated over the folders
RECURSIVE TotalRaces(_, _)
TotalRaces(tree_files, folders) ==
    IF folders = {} THEN 0
    ELSE LET d == CHOOSE x \in folders : TRUE
         IN  Cardinality(race_files(tree_files, d)) + TotalRaces(tree_files, folders \ {d})

NoSummary ==
    [written |-> FALSE, total_meetings |-> 0, total_races |-> 0,
     countries |-> EmptyDict, race_count |-> EmptyDict]

generate_summary(tree_dirs, tree_files) ==
    [written        |-> TRUE,
     total_meetings |-> Cardinality(tree_dirs),
     total_races    |-> TotalRaces(tree_files, tree_dirs),
     countries      |-> [c \in {folder_country(d) : d \in tree_dirs} |->
                            Cardinality({d \in tree_dirs : folder_country(d) = c})],
     race_count     |-> [d \in tree_dirs |-> Cardinality(race_files(tree_files, d))]]

(***************************************************************************)
(* Bounds of the model and the remote service's repertoire                 *)
(***************************************************************************)
\* the most meetings one run collects
MaxMeetings == 2

SeqsUpTo(S, n) == UNION {[1..k -> S] : k \in 0..n}

GallopsRacing == <<"G","a","l","l","o","p","s"," ","R","a","c","i","n","g">>

RaceMaiden == [id |-> "r1", race_number |-> 1, name |-> <<"M","a","i","d","e","n">>]

RaceCup    == [id |-> "r2", race_number |-> 2, name |-> <<"C","u","p",":"," ","1">>]

RaceNoId   == [race_number |-> 1, name |-> <<"T","r","i","a","l">>]

RaceSprint == [id |-> "r3", race_number |-> 2, name |-> <<"S","p","r","i","n","t">>]

\* a domestic meeting with a state and two races
MeetingAscot ==
    [name |-> <<"A","s","c","o","t">>, category_name |-> GallopsRacing,
     country |-> AUS, state |-> <<"W","A">>, races |-> <<RaceMaiden, RaceCup>>]

\* an international meeting without a state, whose first race stub has no id
MeetingShaTin ==
    [name |-> <<"S","h","a"," ","T","i","n">>, category_name |-> GallopsRacing,
     country |-> HKG, races |-> <<RaceNoId, RaceSprint>>]

\* a meeting record whose category_name is present and empty
MeetingOtaki ==
    [name |-> <<"O","t","a","k","i">>, category_name |-> <<>>,
     country |-> NZL, state |-> <<>>, races |-> <<>>]

MeetingPool == {MeetingAscot, MeetingShaTin, MeetingOtaki}

RunnerFull == [entrant_id |-> "7", runner_number |-> "1", form_comment |-> "v1"]

RunnerBare == [entrant_id |-> "8", runner_number |-> "2"]

RunnerNumbered == [runner_number |-> "3", form_comment |-> ""]

\* race-detail bodies
DetailBodies ==
    { Body("falsy", EmptyDict), Body("nodata", EmptyDict), Body("baddata", EmptyDict),
      Body("record", [race |-> [country |-> AUS], runners |-> <<RunnerFull>>]),
      Body("record", [runners |-> <<RunnerBare, RunnerFull>>]),
      Body("record", [race |-> [country |-> NZL], runners |-> <<RunnerNumbered, RunnerBare>>]) }

FormRunnerA == [entrant_id |-> "8", form_comment |-> "v2", best_time |-> "v2"]

FormRunnerB == [runner_number |-> "3", form_comment |-> "v2", gear |-> "v2"]

\* form-endpoint bodies
FormBodies ==
    { Body("falsy", EmptyDict), Body("baddata", EmptyDict), Body("record", EmptyDict),
      Body("record", [runners |-> <<FormRunnerA, FormRunnerB>>]) }

\* per-runner bodies
RunnerBodies ==
    { Body("falsy", EmptyDict), Body("baddata", EmptyDict),
      Body("record", [form_comment |-> "v3", last_twenty_starts |-> "v3"]) }

\* meetings-list bodies that keep the collected list within MaxMeetings
MeetingsBodies(room) ==
    { Body("falsy", EmptyDict), Body("baddata", EmptyDict), Body("record", EmptyDict) }
    \cup { Body("record", [meetings |-> page]) : page \in SeqsUpTo(MeetingPool, room) }

\* the date directory before the run: empty, or left by an earlier run
InitialTrees ==
    { [dirs |-> {}, files |-> {}],
      [dirs  |-> {folder_name(MeetingAscot)},
       files |-> { <<folder_name(MeetingAscot), MeetingInfo>>,
                   <<folder_name(MeetingAscot), race_filename(RaceMaiden)>> }] }

NoStdin == [categories |-> <<>>, countries |-> <<>>]

\* scrape_and_save(interactive=False, countries=..., categories=...) called directly
CallConfig(args) == [entry |-> "call", env |-> EmptyDict, stdin |-> NoStdin, args |-> args]

\* run_scraper.py under the environment env
EnvConfig(env) == [entry |-> "run_scraper", env |-> env, stdin |-> NoStdin, args |-> EmptyDict]

\* main(): interactive, the two lines typed at the prompts
PromptConfig(categories_line, countries_line) ==
    [entry |-> "main", env |-> EmptyDict,
     stdin |-> [categories |-> categories_line, countries |-> countries_line],
     args |-> EmptyDict]

WalkConfigs ==
    { CallConfig(EmptyDict),
      CallConfig([countries |-> <<HKG, AUS>>, categories |-> << <<"T">> >>]) }

(***************************************************************************)
(* State                                                                   *)
(***************************************************************************)
VARIABLES
    cfg,          \* the process configuration: entry point, environment, typed lines, arguments
    tree0,        \* the date directory as the run found it
    pc,           \* the position of the run
    countries,    \* the items get_meetings iterates as countries
    categories,   \* the items get_meetings iterates as categories
    qi,           \* index of the next (country, category) query
    queried,      \* the (country, category) queries issued so far
    all_meetings, \* the meetings collected
    mi,           \* index of the meeting being processed
    ri,           \* index of the race being processed
    race_data,    \* the race record being enhanced
    ei,           \* index of the runner in the per-runner loop
    pending,      \* the outbound request in flight
    response,     \* the answer to it, once it has arrived
    last_req,     \* kind and outcome of the latest completed request
    slept,        \* tenths of a time unit slept since the latest request was issued
    pace,         \* the latest pair of consecutive requests and the sleep between them
    dirs,         \* the folders of the date directory
    files,        \* the files of those folders, as <<folder, name>>
    summary,      \* summary.json as written by this run
    fetch_log,    \* per race: whether its detail fetch succeeded and a file was written
    probe         \* input and result of a pure function applied on its own

selVars  == <<cfg, tree0, countries, categories>>
collVars == <<qi, queried, all_meetings>>
walkVars == <<mi, ri, race_data, ei>>
netVars  == <<pending, response, last_req, slept, pace>>
fsVars   == <<dirs, files, summary, fetch_log>>
vars     == <<pc, selVars, collVars, walkVars, netVars, fsVars, probe>>

NoTimeout == 0
TimeoutDetail == 30
TimeoutForm == 30
TimeoutRunner == 20

SleepMeetings == 5
SleepForm == 3
SleepRunner == 2
SleepRace == 5

NoBody == Body("none", EmptyDict)
NoRequest == [kind |-> "none", timeout |-> NoTimeout]
NoResponse == [outcome |-> "none", body |-> NoBody]
NoProbe == [kind |-> "none"]

WalkIdle ==
    /\ pc = "select"
    /\ countries = <<>> /\ categories = <<>>
    /\ qi = 1 /\ queried = {} /\ all_meetings = <<>>
    /\ mi = 1 /\ ri = 1 /\ race_data = NoBody /\ ei = 1
    /\ pending = NoRequest /\ response = NoResponse
    /\ last_req = [kind |-> "none", ok |-> TRUE]
    /\ slept = 0
    /\ pace = [prev |-> "none", prev_ok |-> TRUE, next |-> "none", gap |-> 0]
    /\ summary = NoSummary
    /\ fetch_log = {}

Init ==
    /\ cfg \in WalkConfigs
    /\ WalkIdle
    /\ tree0 \in InitialTrees
    /\ dirs = tree0.dirs
    /\ files = tree0.files
    /\ probe = NoProbe

(***************************************************************************)
(* The network: issuing a request, the remote's answer, the timeout        *)
(***************************************************************************)
\* requests.get(...) is called: the run blocks until an answer or the timeout
Issue(kind, timeout) ==
    /\ pending' = [kind |-> kind, timeout |-> timeout]
    /\ pace' = [prev |-> last_req.kind, prev_ok |-> last_req.ok,
                next |-> kind, gap |-> slept]
    /\ slept' = 0
    /\ UNCHANGED <<response, last_req>>

\* the call returns or raises: the handler goes on, having slept `nap` tenths
Complete(ok, nap) ==
    /\ pending' = NoRequest
    /\ response' = NoResponse
    /\ last_req' = [kind |-> pending.kind, ok |-> ok]
    /\ slept' = slept + nap
    /\ UNCHANGED pace

Waiting == pending.kind # "none" /\ response.outcome = "none"

Arrived == pending.kind # "none" /\ response.outcome # "none"

BodiesFor(kind) ==
    CASE kind = "meetings" -> MeetingsBodies(MaxMeetings - Len(all_meetings))
      [] kind = "detail"   -> DetailBodies
      [] kind = "form"     -> FormBodies
      [] kind = "runner"   -> RunnerBodies

\* the remote answers: a transport failure, a non-success status, or a JSON body
Respond ==
    /\ Waiting
    /\ \/ \E o \in {"transport", "status"} : response' = [outcome |-> o, body |-> NoBody]
       \/ \E b \in BodiesFor(pending.kind) : response' = [outcome |-> "ok", body |-> b]
    /\ UNCHANGED <<pc, selVars, collVars, walkVars, fsVars, probe>>
    /\ UNCHANGED <<pending, last_req, slept, pace>>

\* the remote does not answer and the request's timeout, if it has one, expires
TimeoutFires ==
    /\ Waiting
    /\ pending.timeout > 0
    /\ response' = [outcome |-> "timeout", body |-> NoBody]
    /\ UNCHANGED <<pc, selVars, collVars, walkVars, fsVars, probe>>
    /\ UNCHANGED <<pending, last_req, slept, pace>>

\* requests.exceptions.RequestException raised by requests.get or raise_for_status
RequestException == response.outcome \in {"transport", "timeout", "status"}

(***************************************************************************)
(* Selection and collection: scrape_and_save up to get_meetings' return    *)
(***************************************************************************)
Select ==
    /\ pc = "select"
    /\ countries' =
           CASE cfg.entry = "main"        -> prompt_for_countries(cfg.stdin.countries)
             [] cfg.entry = "run_scraper" -> run_scraper_countries(cfg.env)
             [] cfg.entry = "call"        -> Get(cfg.args, "countries", <<AUS>>)
    /\ categories' =
           CASE cfg.entry = "main"        -> prompt_for_categories(cfg.stdin.categories)
             [] cfg.entry = "run_scraper" -> run_scraper_categories(cfg.env)
             [] cfg.entry = "call"        -> Get(cfg.args, "categories", << <<"T">>, <<"G">> >>)
    /\ pc' = "collect"
    /\ UNCHANGED <<cfg, tree0, collVars, walkVars, netVars, fsVars, probe>>

NumQueries == Len(countries) * Len(categories)

\* the q-th pair of the nested loops: country-major, category-minor
Query(q) ==
    [country  |-> countries[((q - 1) \div Len(categories)) + 1],
     category |-> categories[((q - 1) % Len(categories)) + 1]]

IssueMeetingsReq ==
    /\ pc = "collect"
    /\ qi <= NumQueries
    /\ Issue("meetings", NoTimeout)
    /\ queried' = queried \cup {Query(qi)}
    /\ pc' = "wait_meetings"
    /\ UNCHANGED <<selVars, qi, all_meetings, walkVars, fsVars, probe>>

\* data["data"]["meetings"] on a "data" that is null raises TypeError, which is not caught
MeetingsRaises(body) == body.shape = "baddata"

HandleMeetings ==
    /\ pc = "wait_meetings"
    /\ Arrived
    /\ IF RequestException
       THEN /\ Complete(FALSE, 0)
            /\ qi' = qi + 1
            /\ pc' = "collect"
            /\ UNCHANGED all_meetings
       ELSE IF MeetingsRaises(response.body)
       THEN /\ Complete(TRUE, 0)
            /\ pc' = "crashed"
            /\ UNCHANGED <<qi, all_meetings>>
       ELSE /\ Complete(TRUE, SleepMeetings)
            /\ all_meetings' =
                   IF HasData(response.body) /\ "meetings" \in DOMAIN response.body.data
                   THEN all_meetings \o response.body.data["meetings"]
                   ELSE all_meetings
            /\ qi' = qi + 1
            /\ pc' = "collect"
    /\ UNCHANGED <<selVars, queried, walkVars, fsVars, probe>>

\* get_meetings returns; an empty list makes scrape_and_save return at once
CollectDone ==
    /\ pc = "collect"
    /\ qi > NumQueries
    /\ pc' = IF all_meetings = <<>> THEN "done" ELSE "meeting"
    /\ UNCHANGED <<selVars, collVars, walkVars, netVars, fsVars, probe>>

(***************************************************************************)
(* The walk over meetings and races                                        *)
(***************************************************************************)
CurMeeting == all_meetings[mi]

CurRaces == Get(CurMeeting, "races", <<>>)

CurRace == CurRaces[ri]

CurFolder == folder_name(CurMeeting)

StartMeeting ==
    /\ pc = "meeting"
    /\ mi <= Len(all_meetings)
    /\ IF FolderRaises(CurMeeting)
       THEN /\ pc' = "crashed"
            /\ UNCHANGED <<dirs, files, ri>>
       ELSE /\ dirs' = dirs \cup {CurFolder}
            /\ files' = files \cup {<<CurFolder, MeetingInfo>>}
            /\ ri' = 1
            /\ pc' = "race"
    /\ UNCHANGED <<selVars, collVars, mi, race_data, ei, netVars, summary, fetch_log, probe>>

\* FinishWalk without the call of generate_summary
FinishWalkWithoutSummary ==
    /\ pc = "meeting"
    /\ mi > Len(all_meetings)
    /\ pc' = "done"
    /\ UNCHANGED <<selVars, collVars, walkVars, netVars, fsVars, probe>>

\* every meeting is processed: generate_summary, then scrape_and_save returns
FinishWalk ==
    /\ pc = "meeting"
    /\ mi > Len(all_meetings)
    /\ summary' = generate_summary(dirs, files)
    /\ pc' = "done"
    /\ UNCHANGED <<selVars, collVars, walkVars, netVars, dirs, files, fetch_log, probe>>

EndMeeting ==
    /\ pc = "race"
    /\ ri > Len(CurRaces)
    /\ mi' = mi + 1
    /\ pc' = "meeting"
    /\ UNCHANGED <<selVars, collVars, ri, race_data, ei, netVars, fsVars, probe>>

\* "if not race_id: continue"
SkipRace ==
    /\ pc = "race"
    /\ ri <= Len(CurRaces)
    /\ ~Truthy(Get(CurRace, "id", ""))
    /\ ri' = ri + 1
    /\ UNCHANGED <<selVars, collVars, mi, race_data, ei, netVars, fsVars, pc, probe>>

IssueDetailReq ==
    /\ pc = "race"
    /\ ri <= Len(CurRaces)
    /\ Truthy(Get(CurRace, "id", ""))
    /\ Issue("detail", TimeoutDetail)
    /\ pc' = "wait_detail"
    /\ UNCHANGED <<selVars, collVars, walkVars, fsVars, probe>>

\* FinishRace without the "if race_details" test: the file is always written
FinishRaceAlwaysWriting(fetched, write) ==
    /\ files' = files \cup {<<CurFolder, race_filename(CurRace)>>}
    /\ fetch_log' = fetch_log \cup
           {[meeting |-> mi, race |-> ri, fetched |-> fetched, saved |-> write]}
    /\ ri' = ri + 1
    /\ race_data' = NoBody
    /\ ei' = 1
    /\ pc' = "race"
    /\ UNCHANGED <<mi, dirs, summary>>

\* back in scrape_and_save with race_details: the file is written when race_details
\* is truthy, then the loop sleeps and goes to the next race
FinishRace(fetched, write) ==
    /\ files' = IF write THEN files \cup {<<CurFolder, race_filename(CurRace)>>} ELSE files
    /\ fetch_log' = fetch_log \cup
           {[meeting |-> mi, race |-> ri, fetched |-> fetched, saved |-> write]}
    /\ ri' = ri + 1
    /\ race_data' = NoBody
    /\ ei' = 1
    /\ pc' = "race"
    /\ UNCHANGED <<mi, dirs, summary>>

HandleDetail ==
    /\ pc = "wait_detail"
    /\ Arrived
    /\ LET country == Get(CurMeeting, "country", <<>>)
           body    == response.body
       IN  IF RequestException
           THEN /\ Complete(FALSE, SleepRace)
                /\ FinishRace(FALSE, FALSE)
           ELSE IF HeuristicRaises(body)
           THEN /\ Complete(TRUE, 0)
                /\ pc' = "crashed"
                /\ UNCHANGED <<walkVars, fsVars>>
           ELSE IF _is_form_data_incomplete(body, country)
           THEN /\ Complete(TRUE, 0)
                /\ race_data' = body
                /\ pc' = "form"
                /\ UNCHANGED <<mi, ri, ei, fsVars>>
           ELSE /\ Complete(TRUE, SleepRace)
                /\ FinishRace(TRUE, BodyTruthy(body))
    /\ UNCHANGED <<selVars, collVars, probe>>

(***************************************************************************)
(* _fetch_enhanced_form_data                                               *)
(***************************************************************************)
IssueFormReq ==
    /\ pc = "form"
    /\ Issue("form", TimeoutForm)
    /\ pc' = "wait_form"
    /\ UNCHANGED <<selVars, collVars, walkVars, fsVars, probe>>

HandleForm ==
    /\ pc = "wait_form"
    /\ Arrived
    /\ IF response.outcome \in {"transport", "timeout"}
       THEN \* requests.get raises: "except Exception" returns enhanced_data
            /\ Complete(FALSE, SleepRace)
            /\ FinishRace(TRUE, BodyTruthy(race_data))
       ELSE IF response.outcome = "status"
       THEN /\ Complete(FALSE, SleepForm)
            /\ ei' = 1
            /\ pc' = "runner"
            /\ UNCHANGED <<mi, ri, race_data, fsVars>>
       ELSE IF MergeFormRaises(response.body)
       THEN /\ Complete(TRUE, SleepRace)
            /\ FinishRace(TRUE, BodyTruthy(race_data))
       ELSE /\ Complete(TRUE, SleepForm)
            /\ race_data' = _merge_form_data(race_data, response.body)
            /\ ei' = 1
            /\ pc' = "runner"
            /\ UNCHANGED <<mi, ri, fsVars>>
    /\ UNCHANGED <<selVars, collVars, probe>>

\* enhanced_data["data"]["runners"], when both keys are there
EnhRunners ==
    IF HasData(race_data) /\ "runners" \in DOMAIN race_data.data
    THEN race_data.data["runners"] ELSE <<>>

\* runner.get("entrant_id") or runner.get("competitor_id")
FetchId(runner) == Or(Get(runner, "entrant_id", JNull), Get(runner, "competitor_id", JNull))

EndRunners ==
    /\ pc = "runner"
    /\ ei > Len(EnhRunners)
    /\ FinishRace(TRUE, BodyTruthy(race_data))
    /\ slept' = slept + SleepRace
    /\ UNCHANGED <<selVars, collVars, pending, response, last_req, pace, probe>>

SkipRunner ==
    /\ pc = "runner"
    /\ ei <= Len(EnhRunners)
    /\ ~Truthy(FetchId(EnhRunners[ei]))
    /\ ei' = ei + 1
    /\ UNCHANGED <<selVars, collVars, mi, ri, race_data, netVars, fsVars, pc, probe>>

IssueRunnerReq ==
    /\ pc = "runner"
    /\ ei <= Len(EnhRunners)
    /\ Truthy(FetchId(EnhRunners[ei]))
    /\ Issue("runner", TimeoutRunner)
    /\ pc' = "wait_runner"
    /\ UNCHANGED <<selVars, collVars, walkVars, fsVars, probe>>

\* the pause after a fetched runner that is not the last of the list
RunnerNap == IF ei < Len(EnhRunners) THEN SleepRunner ELSE 0

HandleRunner ==
    /\ pc = "wait_runner"
    /\ Arrived
    /\ IF response.outcome # "ok" \/ ~BodyTruthy(response.body)
       THEN \* _fetch_runner_details returned None, or a body that is falsy
            /\ Complete(response.outcome = "ok", RunnerNap)
            /\ ei' = ei + 1
            /\ pc' = "runner"
            /\ UNCHANGED <<mi, ri, race_data, fsVars>>
       ELSE IF MergeRunnerRaises(response.body)
       THEN /\ Complete(TRUE, SleepRace)
            /\ FinishRace(TRUE, BodyTruthy(race_data))
       ELSE /\ Complete(TRUE, RunnerNap)
            /\ race_data' =
                   Body("record",
                        Put(race_data.data, "runners",
                            [EnhRunners EXCEPT
                                ![ei] = _merge_runner_data(EnhRunners[ei], response.body)]))
            /\ ei' = ei + 1
            /\ pc' = "runner"
            /\ UNCHANGED <<mi, ri, fsVars>>
    /\ UNCHANGED <<selVars, collVars, probe>>

Next ==
    \/ Select \/ IssueMeetingsReq \/ HandleMeetings \/ CollectDone
    \/ StartMeeting \/ FinishWalk \/ EndMeeting \/ SkipRace \/ IssueDetailReq
    \/ HandleDetail \/ IssueFormReq \/ HandleForm
    \/ EndRunners \/ SkipRunner \/ IssueRunnerReq \/ HandleRunner
    \/ Respond \/ TimeoutFires

Spec == Init /\ [][Next]_vars

(***************************************************************************)
(* The selection and collection phase on its own, under the configurations *)
(* of run_scraper.py (environment) and of main() (typed lines)             *)
(***************************************************************************)
SelectionLines ==
    { <<>>, ALL, <<"a","l","l">>, <<" ","A","L","L"," ">>, AUS,
      <<"N","Z","L",",","H","K","G">>, <<"A","U","S",","," ","A","U","S">>,
      <<"2",",","1","7">>, <<"9","9">>, <<"X","Y","Z">>,
      <<"T">>, <<"T",",","G",",","H">>, <<"1",",","3",",","1">> }

SelectionConfigs ==
    {EnvConfig(EmptyDict), EnvConfig([SCRAPE_COUNTRIES |-> ALL, SCRAPE_CATEGORIES |-> ALL]),
     PromptConfig(ALL, ALL)}
    \cup {EnvConfig([SCRAPE_COUNTRIES |-> x]) : x \in SelectionLines}
    \cup {EnvConfig([SCRAPE_CATEGORIES |-> x]) : x \in SelectionLines}
    \cup {PromptConfig(<<>>, x) : x \in SelectionLines}
    \cup {PromptConfig(x, <<>>) : x \in SelectionLines}

InitSel ==
    /\ cfg \in SelectionConfigs
    /\ WalkIdle
    /\ tree0 = [dirs |-> {}, files |-> {}]
    /\ dirs = tree0.dirs
    /\ files = tree0.files
    /\ probe = NoProbe

NextSel == Select \/ IssueMeetingsReq \/ Respond \/ HandleMeetings \/ CollectDone

SpecSel == InitSel /\ [][NextSel]_vars

(***************************************************************************)
(* _is_form_data_incomplete applied to bounded race records                *)
(***************************************************************************)
\* the longest runner list of a probed record
MaxRunners == 4

HeurRunners ==
    { [entrant_id |-> "7", best_time |-> "v1"],
      [entrant_id |-> "7", form_comment |-> "v1"],
      [entrant_id |-> "7", last_twenty_starts |-> "v1"],
      [entrant_id |-> "7", past_performances |-> "v1"],
      [entrant_id |-> "7", form_indicators |-> "v1"],
      [entrant_id |-> "7", form_comment |-> "", last_twenty_starts |-> "null",
       past_performances |-> "0", form_indicators |-> ""] }

HeurRecords ==
    { Body("falsy", EmptyDict), Body("nodata", EmptyDict), Body("baddata", EmptyDict),
      Body("record", EmptyDict) }
    \cup { Body("record", [runners |-> rs]) : rs \in SeqsUpTo(HeurRunners, MaxRunners) }
    \cup { Body("record", [race |-> race, runners |-> rs]) :
               race \in {EmptyDict, [country |-> AUS], [country |-> NZL]},
               rs \in SeqsUpTo(HeurRunners, MaxRunners) }

InitHeur ==
    /\ cfg = CallConfig(EmptyDict)
    /\ WalkIdle
    /\ tree0 = [dirs |-> {}, files |-> {}]
    /\ dirs = tree0.dirs
    /\ files = tree0.files
    /\ \E rd \in HeurRecords, c \in {<<>>, AUS, HKG} :
           probe = [kind |-> "heur", race_data |-> rd, country |-> c, result |-> "unset"]

Evaluate ==
    /\ probe.kind = "heur"
    /\ probe.result = "unset"
    /\ probe' = [probe EXCEPT !.result =
                    IF HeuristicRaises(probe.race_data) THEN "raise"
                    ELSE IF _is_form_data_incomplete(probe.race_data, probe.country)
                    THEN "True" ELSE "False"]
    /\ UNCHANGED <<pc, selVars, collVars, walkVars, netVars, fsVars>>

NextHeur == Evaluate

SpecHeur == InitHeur /\ [][NextHeur]_vars

(***************************************************************************)
(* The merges of _fetch_enhanced_form_data applied to a bounded base       *)
(* runner: the form-endpoint merge, then per-runner merges                 *)
(***************************************************************************)
\* the most per-runner merges applied to one base runner
MaxMerges == 2

FieldValues == {"null", "", "0", "v1", "v2"}

\* the dicts over the keys ks whose values are drawn from vals
DictsOver(ks, vals) == UNION {[sub -> vals] : sub \in SUBSET ks}

\* the merge fields whose values vary freely over the probed runners
VariedFields == {"form_comment", "best_time"}

\* the other merge fields: absent together, or all holding the value rest
OtherFields == {merge_fields[i] : i \in 1..Len(merge_fields)} \ VariedFields

\* a runner dict made of identifiers, a name, the varied fields fs and the others
RunnerOf(ids, fs, rest) ==
    [k \in (DOMAIN ids) \cup (DOMAIN fs) \cup {"name"}
            \cup (IF rest = "absent" THEN {} ELSE OtherFields) |->
        IF k = "name" THEN "n"
        ELSE IF k \in DOMAIN ids THEN ids[k]
        ELSE IF k \in DOMAIN fs THEN fs[k]
        ELSE rest]

\* the base runners
MergeRunners ==
    { RunnerOf(ids, fs, rest) :
      ids \in { EmptyDict, [entrant_id |-> "7"], [runner_number |-> "7"],
                [entrant_id |-> "7", runner_number |-> "1"] },
      fs \in DictsOver(VariedFields, FieldValues),
      rest \in {"absent", "v1"} }

\* the runners of a form-endpoint answer
FormSupplements ==
    { RunnerOf(ids, fs, rest) :
      ids \in { EmptyDict, [entrant_id |-> "7"], [runner_number |-> "7"] },
      fs \in DictsOver(VariedFields, FieldValues),
      rest \in {"absent", "v2"} }

\* the runner of a per-runner answer
DetailSupplements ==
    { RunnerOf(EmptyDict, fs, rest) :
      fs \in DictsOver(VariedFields, FieldValues),
      rest \in {"absent", "v2"} }

MergeFormBodies ==
    { Body("falsy", EmptyDict), Body("nodata", EmptyDict), Body("baddata", EmptyDict),
      Body("record", EmptyDict) }
    \cup { Body("record", [runners |-> <<r>>]) : r \in FormSupplements }

MergeDetailBodies ==
    { Body("falsy", EmptyDict), Body("nodata", EmptyDict), Body("baddata", EmptyDict) }
    \cup { Body("record", r) : r \in DetailSupplements }

InitMerge ==
    /\ cfg = CallConfig(EmptyDict)
    /\ WalkIdle
    /\ tree0 = [dirs |-> {}, files |-> {}]
    /\ dirs = tree0.dirs
    /\ files = tree0.files
    /\ \E r \in MergeRunners :
           probe = [kind |-> "merge", phase |-> "form", merges |-> 0, contested |-> FALSE,
                    base |-> Body("record", [runners |-> <<r>>])]

ProbeRunner == probe.base.data["runners"][1]

\* the supplemental runner offers another value for a field the base runner holds
Contests(base_runner, supplemental) ==
    \E f \in (DOMAIN base_runner) \cap (DOMAIN supplemental) :
        Truthy(base_runner[f]) /\ supplemental[f] # base_runner[f]

\* Method 1 of _fetch_enhanced_form_data on the answer form_data
MergeForm ==
    /\ probe.kind = "merge"
    /\ probe.phase = "form"
    /\ \E form_data \in MergeFormBodies :
           IF MergeFormRaises(form_data)
           THEN probe' = [probe EXCEPT !.phase = "end"]
           ELSE probe' = [probe EXCEPT
                    !.phase = "runner",
                    !.base = _merge_form_data(probe.base, form_data),
                    !.contested =
                        /\ BodyTruthy(form_data) /\ HasData(form_data)
                        /\ "runners" \in DOMAIN form_data.data
                        /\ InFormRunners(form_data.data["runners"], RunnerKey(ProbeRunner))
                        /\ Contests(ProbeRunner,
                                    FormRunner(form_data.data["runners"],
                                               RunnerKey(ProbeRunner)))]
    /\ UNCHANGED <<pc, selVars, collVars, walkVars, netVars, fsVars>>

\* one pass of Method 2's loop body on the answer runner_details
MergeRunner ==
    /\ probe.kind = "merge"
    /\ probe.phase = "runner"
    /\ probe.merges < MaxMerges
    /\ \E runner_details \in MergeDetailBodies :
           IF BodyTruthy(runner_details) /\ MergeRunnerRaises(runner_details)
           THEN probe' = [probe EXCEPT !.phase = "end"]
           ELSE probe' = [probe EXCEPT
                    !.merges = @ + 1,
                    !.base = Body("record",
                                 [runners |->
                                     <<IF BodyTruthy(runner_details)
                                       THEN _merge_runner_data(ProbeRunner, runner_details)
                                       ELSE ProbeRunner>>]),
                    !.contested =
                        /\ BodyTruthy(runner_details) /\ HasData(runner_details)
                        /\ Contests(ProbeRunner, runner_details.data)]
    /\ UNCHANGED <<pc, selVars, collVars, walkVars, netVars, fsVars>>

NextMerge == MergeForm \/ MergeRunner

SpecMerge == InitMerge /\ [][NextMerge]_vars

(***************************************************************************)
(* Claims                                                                  *)
(***************************************************************************)
\* a value that is not empty: neither null, nor an empty string/list, nor 0 (the
\* values the merge and the heuristic treat as absent)
NonEmpty(v) == v \notin {"null", "", "0"}

AllMergeFields == {merge_fields[i] : i \in 1..Len(merge_fields)}

\* C1: across every merge applied to a base runner (the form-endpoint merge, then
\* each per-runner merge, whatever the supplemental record), every field that
\* held a non-empty value keeps that value; and a runner whose merge fields are
\* all non-empty comes out of every merge unchanged.
C1_MergeKeepsNonEmptyFields ==
    [][ probe.kind = "merge" =>
          LET before == probe.base.data["runners"][1]
              after  == probe'.base.data["runners"][1]
          IN  /\ \A f \in DOMAIN before :
                     NonEmpty(before[f]) => f \in DOMAIN after /\ after[f] = before[f]
              /\ (\A f \in AllMergeFields : f \in DOMAIN before /\ NonEmpty(before[f]))
                     => after = before
      ]_vars

\* C1 witness: a base runner whose merge fields are all non-empty has been through
\* the form-endpoint merge and a per-runner merge whose supplemental record
\* offered a different value for one of its fields.
C1_Witness ==
    /\ probe.kind = "merge"
    /\ probe.phase = "runner"
    /\ probe.merges >= 1
    /\ probe.contested
    /\ \A f \in AllMergeFields : f \in DOMAIN ProbeRunner /\ NonEmpty(ProbeRunner[f])

\* the record has at least one runner
C2_HasRunners(rd) ==
    rd.shape = "record" /\ "runners" \in DOMAIN rd.data /\ Len(rd.data["runners"]) >= 1

\* the race's own recorded country, or the caller's, is international
C2_International(rd, c) ==
    \/ c \in international_countries
    \/ /\ rd.shape = "record" /\ "race" \in DOMAIN rd.data
       /\ "country" \in DOMAIN rd.data["race"]
       /\ rd.data["race"]["country"] \in international_countries

\* the runner has none of the four sampled fields populated
C2_Unpopulated(r) ==
    \A f \in {"form_comment", "last_twenty_starts", "past_performances", "form_indicators"} :
        f \notin DOMAIN r \/ ~NonEmpty(r[f])

\* C2: the completeness heuristic returns true exactly when the record has at
\* least one runner, the race's or the caller's country is international, and
\* one of the first three runners has none of the four form fields populated; so
\* it is false for every domestic record and true for every international record
\* with runners whose first three runners all lack the four fields.
C2_HeuristicIff ==
    (probe.kind = "heur" /\ probe.result \in {"True", "False"}) =>
        LET rd == probe.race_data
            c  == probe.country
        IN  /\ (probe.result = "True") <=>
                   /\ C2_HasRunners(rd)
                   /\ C2_International(rd, c)
                   /\ \E i \in 1..3 : /\ i <= Len(rd.data["runners"])
                                      /\ C2_Unpopulated(rd.data["runners"][i])
            /\ ~C2_International(rd, c) => probe.result = "False"
            /\ ( /\ C2_HasRunners(rd)
                 /\ C2_International(rd, c)
                 /\ \A i \in 1..3 : i <= Len(rd.data["runners"])
                                        => C2_Unpopulated(rd.data["runners"][i]) )
                   => probe.result = "True"

\* C2 witness: the heuristic has answered false for an international record of
\* four runners whose first three are populated and whose fourth is not.
C2_Witness ==
    /\ probe.kind = "heur"
    /\ probe.result = "False"
    /\ C2_HasRunners(probe.race_data)
    /\ C2_International(probe.race_data, probe.country)
    /\ Len(probe.race_data.data["runners"]) = 4
    /\ C2_Unpopulated(probe.race_data.data["runners"][4])

\* the races of the i-th collected meeting
C_Races(i) == Get(all_meetings[i], "races", <<>>)

\* the race files this run has written into a folder, by the log of its fetches
C_Written(folder) ==
    { race_filename(C_Races(e.meeting)[e.race]) :
          e \in {x \in fetch_log : x.saved /\ folder_name(all_meetings[x.meeting]) = folder} }

\* the race files an earlier run left in a folder
C_Stale(folder) == { f[2] : f \in {g \in tree0.files : g[1] = folder /\ IsRaceFile(g[2])} }

C4_NoAnswerStopsTheRun == pc # "crashed"

\* C5: between any two consecutive outbound requests at least the minimum
\* interval (0.2 time units, 2 tenths) is slept, whether the earlier request
\* succeeded or failed.
C5_PacedRequests == pace.prev # "none" => pace.gap >= 2

C6_CountriesAll ==
    \/ /\ cfg.entry = "run_scraper"
       /\ "SCRAPE_COUNTRIES" \in DOMAIN cfg.env
       /\ cfg.env["SCRAPE_COUNTRIES"] = ALL
    \/ cfg.entry = "main" /\ cfg.stdin.countries = ALL

C6_CategoriesAll ==
    \/ /\ cfg.entry = "run_scraper"
       /\ "SCRAPE_CATEGORIES" \in DOMAIN cfg.env
       /\ cfg.env["SCRAPE_CATEGORIES"] = ALL
    \/ cfg.entry = "main" /\ cfg.stdin.categories = ALL

\* C6: when the country (the category) selection is the token ALL, given through
\* the environment or typed at the prompt, the meetings-list queries issued cover
\* exactly every known country code (every category T, G and H).
C6_AllSelectsEverything ==
    (pc = "collect" /\ qi > NumQueries) =>
        /\ C6_CountriesAll =>
               {q.country : q \in queried} = {country_codes[i] : i \in 1..Len(country_codes)}
        /\ C6_CategoriesAll =>
               {q.category : q \in queried} = {<<"T">>, <<"G">>, <<"H">>}

\* the race files of the tree
C_RaceFiles == {f \in files : IsRaceFile(f[2])}

\* the log entries of the races whose detail fetch succeeded
C_Fetched == {e \in fetch_log : e.fetched}

\* C7 as stated: a run that starts from an empty date directory leaves one
\* meeting folder per meeting returned and one race file per race whose detail
\* fetch succeeded, and the summary reports these two numbers.
C7_OneFolderPerMeeting ==
    (pc = "done" /\ tree0.dirs = {}) =>
        /\ Cardinality(dirs) = Len(all_meetings)
        /\ Cardinality(C_RaceFiles) = Cardinality(C_Fetched)
        /\ summary.written
        /\ summary.total_meetings = Len(all_meetings)
        /\ summary.total_races = Cardinality(C_Fetched)

\* the folder names of the meetings returned
C_Folders == {folder_name(all_meetings[i]) : i \in 1..Len(all_meetings)}

\* folder and file name of the races whose detail fetch succeeded with a non-empty body
C_SavedNames ==
    { <<folder_name(all_meetings[e.meeting]), race_filename(C_Races(e.meeting)[e.race])>> :
          e \in {x \in C_Fetched : x.saved} }

\* C7 amended: a run that starts from an empty date directory and walks a
\* non-empty collected list to its end leaves one meeting folder per distinct
\* folder name among the meetings returned and one race file per distinct folder
\* and file name among the races whose detail fetch succeeded with a non-empty
\* body, and the summary reports these two numbers.
C7_OneFolderPerName ==
    (pc = "done" /\ tree0.dirs = {} /\ all_meetings # <<>>) =>
        /\ dirs = C_Folders
        /\ C_RaceFiles = C_SavedNames
        /\ summary.written
        /\ summary.total_meetings = Cardinality(C_Folders)
        /\ summary.total_races = Cardinality(C_SavedNames)

\* C7 witness: a run from an empty directory has ended with two meetings in two
\* folders and race files in both.
C7_Witness ==
    /\ pc = "done" /\ tree0.dirs = {} /\ summary.written
    /\ Len(all_meetings) = 2 /\ Cardinality(dirs) = 2
    /\ \A d \in dirs : \E f \in C_RaceFiles : f[1] = d
    /\ summary.total_races = 3

\* C8: in the summary, the entry of a country is the number of race files in the
\* folders of the meetings of that country, whether or not they have a state.
C8_CountryRaceTotals ==
    (pc = "done" /\ summary.written) =>
        \A i \in 1..Len(all_meetings) :
            LET country == Get(all_meetings[i], "country", <<>>)
                folders == { folder_name(all_meetings[j]) :
                                 j \in {k \in 1..Len(all_meetings) :
                                            Get(all_meetings[k], "country", <<>>) = country} }
            IN  /\ country \in DOMAIN summary.countries
                /\ summary.countries[country]
                       = Cardinality({f \in C_RaceFiles : f[1] \in folders})

\* C9 as stated: every invocation of scrape_and_save that returns, for any
\* collected list including the empty one, has written the summary.
C9_SummaryOnEveryReturn == pc = "done" => summary.written

\* C9 amended: every invocation of scrape_and_save that finishes processing a
\* non-empty collected list has written the summary before it returns.
C9_SummaryAfterWalk == (pc = "done" /\ all_meetings # <<>>) => summary.written

\* C9 witness: the run has returned after walking a collected meeting, with the
\* summary written.
C9_Witness ==
    /\ pc = "done" /\ all_meetings # <<>>
    /\ summary.written /\ summary.total_meetings >= 1

\* C10: every outbound request is issued with a bounded timeout.
C10_EveryRequestHasTimeout == pending.kind # "none" => pending.timeout > 0

(***************************************************************************)
(* sanitize_filename on its own: the strings of up to MaxLen characters    *)
(* over reserved characters, whitespace, underscore and a letter           *)
(***************************************************************************)
MaxLen == 3

SanChars == {"a", "_", " ", "\t", "/", "*", ":", "\\"}

SanStrings == SeqsUpTo(SanChars, MaxLen)

InitSan ==
    /\ cfg = CallConfig(EmptyDict)
    /\ WalkIdle
    /\ tree0 = [dirs |-> {}, files |-> {}]
    /\ dirs = tree0.dirs
    /\ files = tree0.files
    /\ \E s \in SanStrings :
           probe = [kind |-> "san", name |-> s, calls |-> 0, out |-> s, prev |-> s]

\* one more call of sanitize_filename, on the result of the call before
Sanitize ==
    /\ probe.kind = "san"
    /\ probe.calls < 2
    /\ probe' = [probe EXCEPT !.calls = @ + 1,
                              !.prev = probe.out,
                              !.out = sanitize_filename(probe.out)]
    /\ UNCHANGED <<pc, selVars, collVars, walkVars, netVars, fsVars>>

NextSan == Sanitize

SpecSan == InitSan /\ [][NextSan]_vars

\* the reserved characters of file names
C11_Reserved == {"<", ">", ":", "\"", "/", "\\", "|", "?", "*"}

\* C11: for every input string, the result of sanitize_filename holds none of
\* the reserved characters, and sanitizing that result again returns it unchanged.
C11_SanitizeIdempotent ==
    (probe.kind = "san" /\ probe.calls >= 1) =>
        /\ \A i \in 1..Len(probe.out) : probe.out[i] \notin C11_Reserved
        /\ probe.calls = 2 => probe.out = probe.prev

\* C11 witness: a name with a reserved character inside surrounding whitespace
\* has been sanitized twice, and the first call changed it.
C11_Witness ==
    /\ probe.kind = "san" /\ probe.calls = 2
    /\ Len(probe.name) = 3
    /\ probe.name[1] \in Whitespace /\ probe.name[2] \in C11_Reserved
    /\ probe.name[3] \in Whitespace
    /\ probe.out = <<"_">>

\* C12: once enhancement is triggered, whatever the outcome of the form-endpoint
\* fetch (success, non-success status or transport failure), the walker goes on
\* to the per-runner fetches over the runners of the record, from the first one;
\* and no failure of the form fetch or of a runner fetch leaves get_race_details.
C12_BothStrategiesAttempted ==
    [][ /\ (pc = "wait_form" /\ Arrived /\ pc' # pc)
            => pc' = "runner" /\ ei' = 1
        /\ (pc \in {"wait_form", "wait_runner"}) => pc' # "crashed"
      ]_vars

\* the record has runners, it or the caller is international, and one of the
\* first three runners has none of the four sampled fields
C13_NeedsEnhancement(rd, c) ==
    /\ C2_HasRunners(rd)
    /\ C2_International(rd, c)
    /\ \E i \in 1..3 : /\ i <= Len(rd.data["runners"])
                       /\ C2_Unpopulated(rd.data["runners"][i])

\* the country scrape_and_save passes to get_race_details for the current race
C13_Country == Get(CurMeeting, "country", <<>>)

\* C13: a form-endpoint request is issued only right after the successful
\* detail fetch of the same race, on a fetched record for which the heuristic
\* is true; a per-runner request only after a form or per-runner request of the
\* same race; and when the heuristic returns false for the fetched record, as
\* it does for every domestic race, the race is finished with no other request.
C13_EnhancementOnlyWhenIncomplete ==
    [][ /\ (pending.kind = "none" /\ pending'.kind = "form")
            => /\ last_req.kind = "detail" /\ last_req.ok
               /\ C13_NeedsEnhancement(race_data, C13_Country)
               /\ mi' = mi /\ ri' = ri
        /\ (pending.kind = "none" /\ pending'.kind = "runner")
            => /\ last_req.kind \in {"form", "runner"}
               /\ mi' = mi /\ ri' = ri
        /\ ( /\ pc = "wait_detail" /\ Arrived /\ ~RequestException /\ pc' # pc
             /\ ~HeuristicRaises(response.body)
             /\ ~C13_NeedsEnhancement(response.body, C13_Country) )
            => pc' = "race" /\ ri' = ri + 1 /\ pending'.kind = "none"
        /\ ( /\ pc = "wait_detail" /\ Arrived /\ pc' # pc
             /\ ~C2_International(response.body, C13_Country) )
            => pc' # "form"
      ]_vars

\* C13 witness: a per-runner request is in flight right after the form request
\* of an international race, and an earlier race was fetched and saved with
\* its detail fetch alone.
C13_Witness ==
    /\ pending.kind = "runner" /\ pace.prev = "form"
    /\ C2_International(race_data, C13_Country)
    /\ \E e \in fetch_log : e.fetched /\ e.saved

(***************************************************************************)
(* _merge_form_data on its own: one base runner without form fields and a  *)
(* form answer of up to MaxForm runners, each offering a form_comment that *)
(* names its position in the answer                                        *)
(***************************************************************************)
MaxForm == 2

\* the identifiers a runner may carry
MatchIds ==
    { EmptyDict, [entrant_id |-> "7"], [runner_number |-> "7"],
      [entrant_id |-> "7", runner_number |-> "1"],
      [entrant_id |-> "8", runner_number |-> "7"] }

\* the form_comment offered by the j-th runner of the form answer
FormTag(j) == IF j = 1 THEN "f1" ELSE IF j = 2 THEN "f2" ELSE "f3"

\* the form answers: ids is the sequence of the identifiers of its runners
FormAnswer(ids) ==
    Body("record",
         [runners |-> [j \in 1..Len(ids) |-> Put(ids[j], "form_comment", FormTag(j))]])

InitMatch ==
    /\ cfg = CallConfig(EmptyDict)
    /\ WalkIdle
    /\ tree0 = [dirs |-> {}, files |-> {}]
    /\ dirs = tree0.dirs
    /\ files = tree0.files
    /\ \E b \in MatchIds, ids \in SeqsUpTo(MatchIds, MaxForm) :
           probe = [kind |-> "match", done |-> FALSE,
                    base |-> Body("record", [runners |-> <<Put(b, "name", "n")>>]),
                    form |-> FormAnswer(ids),
                    out  |-> NoBody]

\* enhanced_data = self._merge_form_data(enhanced_data, form_data)
MatchForm ==
    /\ probe.kind = "match"
    /\ ~probe.done
    /\ probe' = [probe EXCEPT !.done = TRUE,
                              !.out = _merge_form_data(probe.base, probe.form)]
    /\ UNCHANGED <<pc, selVars, collVars, walkVars, netVars, fsVars>>

NextMatch == MatchForm

SpecMatch == InitMatch /\ [][NextMatch]_vars

\* the runner carries the identifier k
C14_Has(r, k) == k \in DOMAIN r /\ r[k] \notin {"null", "", "0"}

\* the supplemental runner s corresponds to the base runner b by identifier:
\* the same entrant_id, or, one of them having no entrant_id, the same runner_number
C14_Corresponds(b, s) ==
    \/ /\ C14_Has(b, "entrant_id") /\ C14_Has(s, "entrant_id")
       /\ b["entrant_id"] = s["entrant_id"]
    \/ /\ ~C14_Has(b, "entrant_id") \/ ~C14_Has(s, "entrant_id")
       /\ C14_Has(b, "runner_number") /\ C14_Has(s, "runner_number")
       /\ b["runner_number"] = s["runner_number"]

\* C14: in the form-endpoint merge the base runner receives fields only from a
\* supplemental runner that corresponds to it by identifier: never from one
\* matched across the two identifier fields, nor when either has no identifier.
C14_MergedOnlyByIdentifier ==
    (probe.kind = "match" /\ probe.done) =>
        LET b      == probe.base.data["runners"][1]
            merged == probe.out.data["runners"][1]
            form   == probe.form.data["runners"]
        IN  \A j \in 1..Len(form) :
                ("form_comment" \in DOMAIN merged /\ merged["form_comment"] = FormTag(j))
                    => C14_Corresponds(b, form[j])

====
